---- MODULE Spec2Model ----
(***************************************************************************)
(* Model of the Log singleton of src/Log.cpp: a severity threshold, a file *)
(* name, a vector of labels used as a stack, an output file stream, and    *)
(* the two sinks the logger writes to (standard output and the file on     *)
(* disk).  Every member function is one action; the helpers it calls are   *)
(* operators over an "io" record [cout, disk, stream] threaded through the *)
(* calls in the order the code makes them.                                 *)
(*                                                                         *)
(* Strings are TLA+ strings, so "[ TIME ] " + message is computed by \o.   *)
(* The const char* overloads only convert to std::string and forward, so   *)
(* they are the same transitions as the std::string ones.                  *)
(***************************************************************************)
EXTENDS Integers, Sequences, FiniteSets, TLC

\* ------------------------------------------------------------------ bounds
\* Largest call stack explored.
MaxStack == 2
\* Largest number of lines on standard output explored.
MaxOut == 4
\* Largest number of lines on standard output explored by SpecStack.
MaxDump == 7

\* ------------------------------------------------------------------ inputs
Levels == {"FATAL", "ERROR", "WARN", "INFO", "DEBUG"}
Messages == {"x", "y"}
Labels == {"a", "b"}
\* The locations a file can be opened at.
Paths == {"p1", "p2"}
\* The file names a caller may pass: the locations above and one in a
\* directory that does not exist.
FileNames == Paths \cup {"nodir/x"}
\* What peek() may hand back when it reads back() of an empty vector.
Garbage == {"", "?"}
\* The files as they are on disk before the process starts: p1 does not
\* exist yet (no lines), p2 holds a line of an earlier run.
PreExisting == [p \in Paths |-> IF p = "p2" THEN <<"old">> ELSE <<>>]

\* ------------------------------------------------------------------ state
VARIABLES
    m_threshold,    \* Log::m_threshold
    m_fileName,     \* Log::m_fileName
    m_stack,        \* Log::m_stack, back of the vector = end of the sequence
    m_stream,       \* Log::m_stream: [isOpen, path, fail]
    m_initialised,  \* Log::m_initialised
    cout,           \* the lines written to standard output
    disk,           \* the lines of each file on disk
    life,           \* "alive", "destroyed" (after ~Log) or "crashed"
    last,           \* history: the operation just performed and its effect
    run,            \* history: labels pushed since the last pop
    pops,           \* history: pops since the last push (capped at 2)
    initAt,         \* history: length of cout when initialise called open
    opens,          \* history: number of m_stream.open calls
    closes          \* history: number of m_stream.close calls

vars == <<m_threshold, m_fileName, m_stack, m_stream, m_initialised, cout,
          disk, life, last, run, pops, initAt, opens, closes>>

\* ------------------------------------------------------------- Log::Type
\* enum Log::Type, most severe first (declared in Log.h).
Ord(type) ==
    CASE type = "FATAL" -> 0
      [] type = "ERROR" -> 1
      [] type = "WARN"  -> 2
      [] type = "INFO"  -> 3
      [] type = "DEBUG" -> 4

\* ------------------------------------------------------------- the sinks
\* std::cout << message << std::endl
CoutInsert(io, message) == [io EXCEPT !.cout = Append(@, message)]

\* m_stream << message << std::endl.  A stream whose state is not good
\* swallows the insertion; inserting into a stream with no open file fails
\* and sets the error state; otherwise the line is flushed to the file.
StreamInsert(io, message) ==
    IF io.stream.fail THEN io
    ELSE IF ~io.stream.isOpen THEN [io EXCEPT !.stream.fail = TRUE]
    ELSE [io EXCEPT !.disk[io.stream.path] = Append(@, message)]

\* m_stream.open( fileName, app | out ).  On a stream that already has a
\* file, or for a name no file can be opened at, the open fails: the stream
\* keeps what it had and its error state is set.  Otherwise the file is
\* opened with its lines kept, and the error state is cleared.
StreamOpen(io, fileName) ==
    IF io.stream.isOpen \/ fileName \notin DOMAIN io.disk
    THEN [io EXCEPT !.stream.fail = TRUE]
    ELSE [io EXCEPT !.stream =
                [isOpen |-> TRUE, path |-> fileName, fail |-> FALSE]]

\* Variant of m_stream.close() that leaves the file open.
StreamCloseNot(io) == io

\* m_stream.close(): closing a stream that has no open file fails and sets
\* the error state.
StreamClose(io) ==
    IF io.stream.isOpen
    THEN [io EXCEPT !.stream.isOpen = FALSE]
    ELSE [io EXCEPT !.stream.fail = TRUE]

\* Variant of Log::write that forgets the file.
WriteCoutOnly(io, message) == CoutInsert(io, message)

\* Log::write
Write(io, message) == StreamInsert(CoutInsert(io, message), message)

\* ------------------------------------------------------------- Log::log
Prefix == "[ TIME ] "
BannerOpen == "====== Stack Trace ======"
BannerClose == "========================="

\* Variant of the threshold test with < for <=.
PassesStrict(type, threshold) == Ord(type) < Ord(threshold)

\* type <= m_threshold
Passes(type, threshold) == Ord(type) <= Ord(threshold)

\* type <= ERROR
DumpsStack(type) == Ord(type) <= Ord("ERROR")

\* Variant of the loop that walks the vector from begin() to end().
RECURSIVE DumpForward(_, _, _)
DumpForward(io, stack, i) ==
    IF i = 0 THEN io
    ELSE DumpForward(Write(io, stack[Len(stack) + 1 - i]), stack, i - 1)

\* The loop from m_stack.rbegin() to m_stack.rend(): i is the index of the
\* element the reverse iterator points at, 0 when it has reached rend().
RECURSIVE DumpFrom(_, _, _)
DumpFrom(io, stack, i) ==
    IF i = 0 THEN io ELSE DumpFrom(Write(io, stack[i]), stack, i - 1)

DumpStack(io, stack) ==
    Write(DumpFrom(Write(io, BannerOpen), stack, Len(stack)), BannerClose)

\* Log::log: the io after the call and the value returned.
Log(io, stack, threshold, type, message) ==
    IF Passes(type, threshold)
    THEN LET w == Write(io, Prefix \o message)
         IN  [io  |-> IF DumpsStack(type) THEN DumpStack(w, stack) ELSE w,
              ret |-> TRUE]
    ELSE [io |-> io, ret |-> FALSE]

\* Log::info
Info(io, stack, threshold, message) == Log(io, stack, threshold, "INFO", message)

\* ------------------------------------------------------------- the stack
\* Variant of back() that reads front().
Front(stack) == stack[1]
\* m_stack.back()
Back(stack) == stack[Len(stack)]

\* Variant of push_back that inserts at begin().
PushFront(stack, input) == <<input>> \o stack
\* m_stack.push_back( input )
PushBack(stack, input) == Append(stack, input)

\* Variant of pop_back that erases begin().
PopFront(stack) == SubSeq(stack, 2, Len(stack))
\* m_stack.pop_back()
PopBack(stack) == SubSeq(stack, 1, Len(stack) - 1)

\* Variant of the test of the label that accepts every label.
EmptyNever(input) == FALSE
\* input.empty()
Empty(input) == input = ""

\* !m_initialised
MayInitialise(initialised) == ~initialised

\* ------------------------------------------------------------- history
Delta(new, old) == SubSeq(new, Len(old) + 1, Len(new))

IO == [cout |-> cout, disk |-> disk, stream |-> m_stream]

Pre == [stack |-> m_stack, initialised |-> m_initialised,
        fileName |-> m_fileName, stream |-> m_stream,
        threshold |-> m_threshold]

NoCall == [op |-> "none", type |-> "", arg |-> "", ret |-> FALSE, str |-> "",
           out |-> <<>>, fout |-> [p \in Paths |-> <<>>],
           pre |-> [stack |-> <<>>, initialised |-> FALSE, fileName |-> "",
                    stream |-> [isOpen |-> FALSE, path |-> "", fail |-> FALSE],
                    threshold |-> "INFO"]]

\* The sinks after a call, and the record of the call.
Effect(io, op, type, arg, ret, str) ==
    /\ cout' = io.cout
    /\ disk' = io.disk
    /\ m_stream' = io.stream
    /\ last' = [op |-> op, type |-> type, arg |-> arg, ret |-> ret, str |-> str,
                out |-> Delta(io.cout, cout),
                fout |-> [p \in Paths |-> Delta(io.disk[p], disk[p])],
                pre |-> Pre]

\* ------------------------------------------------------------- Init
\* Log::Log.  m_initialised is not in the initialiser list; the only
\* instance is the function-local static of Log::instance, whose storage
\* is zero-initialised before the constructor runs, so it starts false.
Init ==
    /\ m_threshold = "INFO"
    /\ m_fileName = ""
    /\ m_stack = <<>>
    /\ m_stream = [isOpen |-> FALSE, path |-> "", fail |-> FALSE]
    /\ m_initialised = FALSE
    /\ cout = <<>>
    /\ disk = PreExisting
    /\ life = "alive"
    /\ last = NoCall
    /\ run = <<>>
    /\ pops = 0
    /\ initAt = 0
    /\ opens = 0
    /\ closes = 0

\* ------------------------------------------------------------- actions
\* Log::initialise
Initialise(fileName) ==
    /\ life = "alive"
    /\ IF MayInitialise(m_initialised)
       THEN LET r == Info(StreamOpen(IO, fileName), m_stack, m_threshold,
                          "Log initialised")
            IN  /\ m_fileName' = fileName
                /\ m_initialised' = TRUE
                /\ opens' = opens + 1
                /\ initAt' = Len(cout)
                /\ Effect(r.io, "initialise", "", fileName, TRUE, "")
       ELSE /\ UNCHANGED <<m_fileName, m_initialised, opens, initAt>>
            /\ Effect(IO, "initialise", "", fileName, FALSE, "")
    /\ UNCHANGED <<m_threshold, m_stack, life, run, pops, closes>>

\* Log::write
WriteOp(message) ==
    /\ life = "alive"
    /\ Effect(Write(IO, message), "write", "", message, FALSE, "")
    /\ UNCHANGED <<m_threshold, m_fileName, m_stack, m_initialised, life,
                   run, pops, initAt, opens, closes>>

\* Log::log
LogOp(type, message) ==
    /\ life = "alive"
    /\ LET r == Log(IO, m_stack, m_threshold, type, message)
       IN  Effect(r.io, "log", type, message, r.ret, "")
    /\ UNCHANGED <<m_threshold, m_fileName, m_stack, m_initialised, life,
                   run, pops, initAt, opens, closes>>

\* Log::fatal, Log::error, Log::warn, Log::info, Log::debug
FatalOp(message) == LogOp("FATAL", message)
ErrorOp(message) == LogOp("ERROR", message)
WarnOp(message)  == LogOp("WARN", message)
InfoOp(message)  == LogOp("INFO", message)
DebugOp(message) == LogOp("DEBUG", message)

\* Log::peek.  back() of an empty vector is undefined: the call may return
\* anything or end the process.
Peek ==
    /\ life = "alive"
    /\ IF m_stack # <<>>
       THEN /\ Effect(IO, "peek", "", "", FALSE, Back(m_stack))
            /\ life' = life
       ELSE \/ \E g \in Garbage :
                  /\ Effect(IO, "peek", "", "", FALSE, g)
                  /\ life' = life
            \/ /\ Effect(IO, "peek", "", "", FALSE, "")
               /\ life' = "crashed"
    /\ UNCHANGED <<m_threshold, m_fileName, m_stack, m_initialised,
                   run, pops, initAt, opens, closes>>

\* Log::push
Push(input) ==
    /\ life = "alive"
    /\ IF ~Empty(input)
       THEN LET r == Info(IO, m_stack, m_threshold, "BEGIN - " \o input)
            IN  /\ Len(m_stack) < MaxStack
                /\ m_stack' = PushBack(m_stack, input)
                /\ run' = IF pops = 0 THEN Append(run, input) ELSE <<input>>
                /\ pops' = 0
                /\ Effect(r.io, "push", "", input, TRUE, "")
       ELSE /\ UNCHANGED <<m_stack, run, pops>>
            /\ Effect(IO, "push", "", input, FALSE, "")
    /\ UNCHANGED <<m_threshold, m_fileName, m_initialised, life, initAt,
                   opens, closes>>

\* Log::pop
Pop ==
    /\ life = "alive"
    /\ IF m_stack # <<>>
       THEN LET temp == Back(m_stack)
                popped == PopBack(m_stack)
                r == Info(IO, popped, m_threshold, "END - " \o temp)
            IN  /\ m_stack' = popped
                /\ pops' = IF pops < 2 THEN pops + 1 ELSE 2
                /\ Effect(r.io, "pop", "", "", FALSE, temp)
       ELSE /\ UNCHANGED <<m_stack, pops>>
            /\ Effect(IO, "pop", "", "", FALSE, "")
    /\ UNCHANGED <<m_threshold, m_fileName, m_initialised, life, run, initAt,
                   opens, closes>>

\* Log::~Log, run once when the process tears its statics down.
Destructor ==
    /\ life = "alive"
    /\ life' = "destroyed"
    /\ IF m_initialised
       THEN LET r == Info(IO, m_stack, m_threshold, "Log shutting down")
            IN  /\ Effect(StreamClose(r.io), "destructor", "", "", FALSE, "")
                /\ closes' = closes + 1
       ELSE /\ Effect(IO, "destructor", "", "", FALSE, "")
            /\ closes' = closes
    /\ UNCHANGED <<m_threshold, m_fileName, m_stack, m_initialised,
                   run, pops, initAt, opens>>

\* The runs explored are those that keep standard output within a bound.
Within(n) == Len(cout') <= n

Next ==
    \/ \E f \in FileNames : Initialise(f) /\ Within(MaxOut)
    \/ \E m \in Messages : WriteOp(m) /\ Within(MaxOut)
    \/ \E t \in Levels, m \in Messages : LogOp(t, m) /\ Within(MaxOut)
    \/ \E m \in Messages : FatalOp(m) /\ Within(MaxOut)
    \/ \E m \in Messages : ErrorOp(m) /\ Within(MaxOut)
    \/ \E m \in Messages : WarnOp(m) /\ Within(MaxOut)
    \/ \E m \in Messages : InfoOp(m) /\ Within(MaxOut)
    \/ \E m \in Messages : DebugOp(m) /\ Within(MaxOut)
    \/ Peek /\ Within(MaxOut)
    \/ \E i \in Labels \cup {""} : Push(i) /\ Within(MaxOut)
    \/ Pop /\ Within(MaxOut)
    \/ Destructor /\ Within(MaxOut)

Spec == Init /\ [][Next]_vars

\* The runs of a client that only pushes, pops and logs one message: long
\* enough to fill the call stack and dump it.
NextStack ==
    \/ \E i \in Labels \cup {""} : Push(i) /\ Within(MaxDump)
    \/ Pop /\ Within(MaxDump)
    \/ \E t \in Levels : LogOp(t, "x") /\ Within(MaxDump)

SpecStack == Init /\ [][NextStack]_vars

\* ------------------------------------------------------------- properties
\* What the properties expect, written out independently of the operators
\* above.
Formatted(message) == "[ TIME ] " \o message
Reversed(s) == [i \in 1..Len(s) |-> s[Len(s) + 1 - i]]
NoFileOutput == \A p \in Paths : last.fout[p] = <<>>
LoggerUnchanged ==
    /\ m_stack = last.pre.stack
    /\ m_initialised = last.pre.initialised
    /\ m_fileName = last.pre.fileName
    /\ m_stream = last.pre.stream
    /\ m_threshold = last.pre.threshold
\* The file received the lines standard output received, if it was open.
Mirrored ==
    (last.pre.stream.isOpen /\ ~last.pre.stream.fail)
        => last.fout[last.pre.stream.path] = last.out

\* C1: log(L, m) with L at or above the threshold (ordinal <= the threshold's)
\* returns true and writes one formatted line for m, followed by a stack dump
\* exactly when L is ERROR or FATAL; with L below the threshold it returns
\* false, writes nothing to either sink and changes no logger state.
C1_LogFilters ==
    last.op = "log" =>
        IF Ord(last.type) <= Ord(last.pre.threshold)
        THEN /\ last.ret = TRUE
             /\ Len(last.out) >= 1
             /\ last.out[1] = Formatted(last.arg)
             /\ IF last.type \in {"ERROR", "FATAL"}
                THEN /\ Len(last.out) = 3 + Len(last.pre.stack)
                     /\ last.out[2] = "====== Stack Trace ======"
                     /\ last.out[Len(last.out)] = "========================="
                ELSE Len(last.out) = 1
             /\ Mirrored
        ELSE /\ last.ret = FALSE
             /\ last.out = <<>>
             /\ NoFileOutput
             /\ LoggerUnchanged

\* A filtered DEBUG call made after an ERROR call was emitted with its dump
\* into the open file.
C1_Witness ==
    /\ last.op = "log" /\ last.type = "DEBUG" /\ last.ret = FALSE
    /\ m_stream.isOpen
    /\ \E i \in 1..Len(disk[m_stream.path]) :
          disk[m_stream.path][i] = "====== Stack Trace ======"

\* C2: an emitted log at ERROR or FATAL writes the message line, the opening
\* banner, every label on the call stack once, most recently pushed first,
\* and the closing banner, and leaves the stack as it was.
C2_DumpReversed ==
    (last.op = "log" /\ last.ret /\ last.type \in {"ERROR", "FATAL"}) =>
        /\ last.out = <<Formatted(last.arg), "====== Stack Trace ======">>
                        \o Reversed(last.pre.stack)
                        \o <<"=========================">>
        /\ m_stack = last.pre.stack

\* A dump of a stack of two different labels.
C2_Witness ==
    /\ last.op = "log" /\ last.ret /\ last.type = "ERROR"
    /\ Len(m_stack) >= 2
    /\ m_stack[1] # m_stack[2]

\* C3 as stated: the file is opened at most once.  The first
\* initialise(path) opens path in append mode and returns true; a later
\* initialise returns false, writes nothing and leaves the file name and the
\* stream as they were.
C3_InitialiseOnce ==
    /\ opens <= 1
    /\ last.op = "initialise" =>
          IF ~last.pre.initialised
          THEN /\ last.ret = TRUE
               /\ m_initialised
               /\ m_fileName = last.arg
               /\ m_stream = [isOpen |-> TRUE, path |-> last.arg, fail |-> FALSE]
               /\ last.arg \in Paths
               /\ disk[last.arg] =
                      PreExisting[last.arg] \o <<Formatted("Log initialised")>>
          ELSE /\ last.ret = FALSE
               /\ last.out = <<>>
               /\ NoFileOutput
               /\ LoggerUnchanged

\* C4 as stated: in every state, also before initialise, write(message) puts
\* the message on standard output and in the log file, so that the file holds
\* the same sequence of lines as standard output.
C4_WriteReachesBothSinks ==
    /\ last.op = "write" =>
          /\ last.out = <<last.arg>>
          /\ \E p \in Paths : last.fout[p] = <<last.arg>>
    /\ m_stream.isOpen => disk[m_stream.path] = cout

\* C4, amended: write(message) always puts the unfiltered, unprefixed message
\* on standard output, and appends it to the log file while the stream has
\* an open file.  Before initialise, and after an initialise whose open
\* failed, no file changes; after a successful open the file holds its
\* earlier lines followed by the lines standard output received from the
\* initialise call on.
C4_WriteMirrorsOnceOpen ==
    /\ last.op = "write" =>
          /\ last.out = <<last.arg>>
          /\ IF last.pre.stream.isOpen
             THEN \A p \in Paths :
                    last.fout[p] =
                        IF p = last.pre.fileName THEN <<last.arg>> ELSE <<>>
             ELSE NoFileOutput
    /\ m_stream.path \notin Paths => disk = PreExisting
    /\ m_stream.path \in Paths =>
          /\ m_stream.path = m_fileName
          /\ \A p \in Paths :
                disk[p] = IF p = m_fileName
                          THEN PreExisting[p]
                                 \o SubSeq(cout, initAt + 1, Len(cout))
                          ELSE PreExisting[p]

\* A write into a file that already had lines, by a logger that wrote to
\* standard output before it was initialised.
C4_Witness ==
    /\ last.op = "write" /\ last.pre.stream.isOpen
    /\ initAt > 0
    /\ PreExisting[m_stream.path] # <<>>

\* C5: push(f) with a non-empty f returns true, and the pop() that follows
\* it at once returns f and leaves the stack as it was before the push.
C5_PushPopRoundTrip ==
    [][ (last.op = "push" /\ last.ret /\ last'.op = "pop")
            => (last'.str = last.arg /\ m_stack' = last.pre.stack) ]_vars

\* A pop right after a push onto a stack that was not empty: standard output
\* ends with the BEGIN line and the END line of the same label.
C5_Witness ==
    /\ last.op = "pop" /\ last.str # "" /\ m_stack # <<>>
    /\ Len(cout) >= 2
    /\ cout[Len(cout) - 1] = Formatted("BEGIN - " \o last.str)
    /\ cout[Len(cout)] = Formatted("END - " \o last.str)

\* C6: push("") returns false, leaves the stack alone and writes nothing;
\* push of a non-empty label writes the INFO line "BEGIN - label", puts the
\* label on top of the stack and returns true.
C6_PushRejectsEmpty ==
    last.op = "push" =>
        IF last.arg = ""
        THEN /\ last.ret = FALSE
             /\ last.out = <<>>
             /\ NoFileOutput
             /\ LoggerUnchanged
        ELSE /\ last.ret = TRUE
             /\ last.out = <<Formatted("BEGIN - " \o last.arg)>>
             /\ Mirrored
             /\ m_stack = last.pre.stack \o <<last.arg>>

\* A rejected push on a stack that holds a label.
C6_Witness ==
    /\ last.op = "push" /\ last.arg = "" /\ last.ret = FALSE
    /\ m_stack # <<>>

\* C7: pop() on a non-empty stack removes the top label (the most recently
\* pushed one not yet popped), returns it and writes the INFO line
\* "END - label"; on an empty stack it returns "", writes nothing and the
\* stack stays empty.
C7_PopTop ==
    last.op = "pop" =>
        IF last.pre.stack # <<>>
        THEN /\ last.str = last.pre.stack[Len(last.pre.stack)]
             /\ m_stack = SubSeq(last.pre.stack, 1, Len(last.pre.stack) - 1)
             /\ last.out = <<Formatted("END - " \o last.str)>>
             /\ Mirrored
             /\ (pops = 1 /\ run # <<>>) => last.str = run[Len(run)]
        ELSE /\ last.str = ""
             /\ m_stack = <<>>
             /\ last.out = <<>>
             /\ NoFileOutput

\* A pop from a stack of two different labels.
C7_Witness ==
    /\ last.op = "pop"
    /\ Len(last.pre.stack) = 2
    /\ last.pre.stack[1] # last.pre.stack[2]
    /\ last.str = last.pre.stack[2]

\* C8: after N >= 1 pushes in a row peek() returns the Nth label and changes
\* nothing; after one pop that follows N >= 2 pushes it returns the
\* (N-1)th.
C8_PeekTop ==
    (last.op = "peek" /\ last.pre.stack # <<>>) =>
        /\ LoggerUnchanged
        /\ last.out = <<>>
        /\ NoFileOutput
        /\ (pops = 0 /\ Len(run) >= 1) => last.str = run[Len(run)]
        /\ (pops = 1 /\ Len(run) >= 2) => last.str = run[Len(run) - 1]

\* A peek after pushes of different labels and one pop.
C8_Witness ==
    /\ last.op = "peek"
    /\ pops = 1
    /\ Len(run) >= 2
    /\ run[Len(run)] # run[Len(run) - 1]
    /\ last.str = run[Len(run) - 1]

\* C9 as stated: the line an emitted log writes for its message carries the
\* timestamp prefix and the level, so two emitted calls with the same
\* message and different levels write different lines.
C9_LineNamesLevel ==
    [][ (/\ last.op = "log" /\ last.ret
         /\ last'.op = "log" /\ last'.ret
         /\ last'.arg = last.arg
         /\ last'.type # last.type)
            => last'.out[1] # last.out[1] ]_vars

\* C10 as stated: the file is open exactly from the first initialise until
\* teardown, and teardown writes the shutdown message as the last line and
\* closes the file exactly once.
C10_TeardownAlwaysReports ==
    /\ m_stream.isOpen <=> (m_initialised /\ life # "destroyed")
    /\ m_initialised <=> opens = 1
    /\ m_stream.isOpen # last.pre.stream.isOpen
          => last.op \in {"initialise", "destructor"}
    /\ life = "destroyed" =>
          /\ closes = 1
          /\ cout # <<>>
          /\ cout[Len(cout)] = Formatted("Log shutting down")

\* C10, amended: the logger becomes initialised on the first initialise call
\* only, which is the only call that opens the file, and the file, if the
\* open succeeded, stays open until teardown, the only operation that closes
\* it.  Teardown of an initialised logger writes the shutdown message as the
\* last line of standard output, and of the file if one was opened, and
\* calls close exactly once; teardown of a logger that was never initialised
\* writes nothing and closes nothing.
C10_TeardownReportsIfInitialised ==
    /\ m_stream.isOpen =>
          (m_initialised /\ life # "destroyed" /\ m_stream.path = m_fileName)
    /\ (m_initialised /\ m_fileName \in Paths /\ life # "destroyed")
          => m_stream.isOpen
    /\ m_initialised <=> opens = 1
    /\ m_stream.isOpen # last.pre.stream.isOpen
          => last.op \in {"initialise", "destructor"}
    /\ (last.op = "initialise" /\ m_stream # last.pre.stream)
          => ~last.pre.initialised
    /\ closes > 0 => life = "destroyed"
    /\ life = "destroyed" =>
          IF m_initialised
          THEN /\ closes = 1
               /\ cout # <<>>
               /\ cout[Len(cout)] = Formatted("Log shutting down")
               /\ IF m_fileName \in Paths
                  THEN /\ disk[m_fileName] # <<>>
                       /\ disk[m_fileName][Len(disk[m_fileName])]
                              = Formatted("Log shutting down")
                  ELSE disk = PreExisting
          ELSE /\ closes = 0
               /\ last.out = <<>>
               /\ disk = PreExisting

\* Teardown of an initialised logger with a label still on its stack.
C10_Witness ==
    /\ life = "destroyed"
    /\ m_initialised
    /\ m_fileName \in Paths
    /\ closes = 1
    /\ m_stack # <<>>

====
